---- MODULE Spec2Model ----
(***************************************************************************)
(* The plan-execution control loop of the web agent (src/graph.py), its    *)
(* semantic URL guard and its structured-output extractor.                 *)
(*                                                                         *)
(* Python str values are sequences of one-character strings, so that       *)
(* lower(), the "in" operator, slicing and concatenation are computed as   *)
(* Python computes them.  The variation selector that follows the warning  *)
(* sign in the blocked message is not written (it takes part in no         *)
(* comparison).  Other Python values (what json.loads returns, what the    *)
(* state dictionary holds) are records tagged with their Python type.      *)
(* The text of a language-model response that the code parses is a         *)
(* sequence of lexical tokens: whitespace between tokens is not            *)
(* represented and string literals hold no bracket, brace or fence.        *)
(***************************************************************************)
EXTENDS Integers, Sequences, FiniteSets, TLC

\* ---------------------------------------------------------------- bounds
\* Longest plan the planning model returns.
MaxPlanLen == 2

\* the chat messages received while earlier runs may still be executing
MaxMessages == 3

\* ------------------------------------------------------- Python str values
UpperChars ==
    <<"A", "B", "C", "D", "E", "F", "G", "H", "I", "J", "K", "L", "M", "N", "O", "P", "Q", "R", "S", "T", "U", "V", "W", "X", "Y", "Z", "Ú", "Í", "Ã", "Ç", "É", "Â">>
LowerChars ==
    <<"a", "b", "c", "d", "e", "f", "g", "h", "i", "j", "k", "l", "m", "n", "o", "p", "q", "r", "s", "t", "u", "v", "w", "x", "y", "z", "ú", "í", "ã", "ç", "é", "â">>

\* one character of str.lower()
char_lower(c) ==
    IF \E i \in 1..Len(UpperChars) : UpperChars[i] = c
    THEN LowerChars[CHOOSE i \in 1..Len(UpperChars) : UpperChars[i] = c]
    ELSE c

\* s.lower()
str_lower(s) == [i \in 1..Len(s) |-> char_lower(s[i])]

\* sub in s
str_in(sub, s) ==
    \E i \in 0..(Len(s) - Len(sub)) : SubSeq(s, i + 1, i + Len(sub)) = sub

RECURSIVE str_repeat(_, _)
\* s * n
str_repeat(s, n) == IF n = 0 THEN <<>> ELSE s \o str_repeat(s, n - 1)

\* s[:n]
str_prefix(s, n) == SubSeq(s, 1, IF Len(s) < n THEN Len(s) ELSE n)

\* s.split(sep)[0], sep a single character
str_split_first(s, sep) ==
    LET hits == {i \in 1..Len(s) : s[i] = sep}
    IN  IF hits = {} THEN s
        ELSE SubSeq(s, 1, (CHOOSE i \in hits : \A j \in hits : i <= j) - 1)

DigitChars == <<"0", "1", "2", "3", "4", "5", "6", "7", "8", "9">>

RECURSIVE int_str(_)
\* str(n) for an int n >= 0
int_str(n) ==
    IF n < 10 THEN <<DigitChars[n + 1]>>
    ELSE int_str(n \div 10) \o <<DigitChars[(n % 10) + 1]>>

RECURSIVE digits_int(_)
\* int(s) for a string of decimal digits
digits_int(s) ==
    IF s = <<>> THEN 0
    ELSE 10 * digits_int(SubSeq(s, 1, Len(s) - 1))
         + ((CHOOSE d \in 1..10 : DigitChars[d] = s[Len(s)]) - 1)

\* --------------------------------------------------------- string literals
\* 'youtube'
S_youtube ==
    <<"y", "o", "u", "t", "u", "b", "e">>

\* 'youtube.com'
S_youtube_com ==
    <<"y", "o", "u", "t", "u", "b", "e", ".", "c", "o", "m">>

\* 'intent_summary'
S_intent_summary ==
    <<"i", "n", "t", "e", "n", "t", "_", "s", "u", "m", "m", "a", "r", "y">>

\* 'step'
S_step ==
    <<"s", "t", "e", "p">>

\* 'action'
S_action ==
    <<"a", "c", "t", "i", "o", "n">>

\* 'input'
S_input ==
    <<"i", "n", "p", "u", "t">>

\* 'description'
S_description ==
    <<"d", "e", "s", "c", "r", "i", "p", "t", "i", "o", "n">>

\* 'search_web'
S_search_web ==
    <<"s", "e", "a", "r", "c", "h", "_", "w", "e", "b">>

\* 'open_url'
S_open_url ==
    <<"o", "p", "e", "n", "_", "u", "r", "l">>

\* 'Busca inicial sobre a solicitação'
S_fallback_description ==
    <<"B", "u", "s", "c", "a", " ", "i", "n", "i", "c", "i", "a", "l", " ", "s", "o", "b", "r", "e", " ", "a", " ", "s", "o", "l", "i", "c", "i", "t", "a", "ç", "ã", "o">>

\* 'success'
S_success ==
    <<"s", "u", "c", "c", "e", "s", "s">>

\* 'can_continue'
S_can_continue ==
    <<"c", "a", "n", "_", "c", "o", "n", "t", "i", "n", "u", "e">>

\* 'notes'
S_notes ==
    <<"n", "o", "t", "e", "s">>

\* 'extracted_info'
S_extracted_info ==
    <<"e", "x", "t", "r", "a", "c", "t", "e", "d", "_", "i", "n", "f", "o">>

\* 'Plano concluído.'
S_plan_done ==
    <<"P", "l", "a", "n", "o", " ", "c", "o", "n", "c", "l", "u", "í", "d", "o", ".">>

\* "Tool '"
S_tool_pre ==
    <<"T", "o", "o", "l", " ", "'">>

\* "' não encontrada."
S_tool_post ==
    <<"'", " ", "n", "ã", "o", " ", "e", "n", "c", "o", "n", "t", "r", "a", "d", "a", ".">>

\* "⚠ URL '"
S_blocked_1 ==
    <<"⚠", " ", "U", "R", "L", " ", "'">>

\* "' foi BLOQUEADA por violar restrição semântica. "
S_blocked_2 ==
    <<"'", " ", "f", "o", "i", " ", "B", "L", "O", "Q", "U", "E", "A", "D", "A", " ", "p", "o", "r", " ", "v", "i", "o", "l", "a", "r", " ", "r", "e", "s", "t", "r", "i", "ç", "ã", "o", " ", "s", "e", "m", "â", "n", "t", "i", "c", "a", ".", " ">>

\* "A intenção é '"
S_blocked_3 ==
    <<"A", " ", "i", "n", "t", "e", "n", "ç", "ã", "o", " ", "é", " ", "'">>

\* "' e esta URL não corresponde ao domínio esperado."
S_blocked_4 ==
    <<"'", " ", "e", " ", "e", "s", "t", "a", " ", "U", "R", "L", " ", "n", "ã", "o", " ", "c", "o", "r", "r", "e", "s", "p", "o", "n", "d", "e", " ", "a", "o", " ", "d", "o", "m", "í", "n", "i", "o", " ", "e", "s", "p", "e", "r", "a", "d", "o", ".">>

\* "Erro na execução de '"
S_exec_err_pre ==
    <<"E", "r", "r", "o", " ", "n", "a", " ", "e", "x", "e", "c", "u", "ç", "ã", "o", " ", "d", "e", " ", "'">>

\* "': "
S_exec_err_mid ==
    <<"'", ":", " ">>

\* 'json'
S_json ==
    <<"j", "s", "o", "n">>

\* known_domains of semantic_url_check
known_domains ==
    << <<"g", "o", "o", "g", "l", "e", ".", "c", "o", "m">>,
       <<"i", "n", "s", "t", "a", "g", "r", "a", "m", ".", "c", "o", "m">>,
       <<"f", "a", "c", "e", "b", "o", "o", "k", ".", "c", "o", "m">>,
       <<"t", "w", "i", "t", "t", "e", "r", ".", "c", "o", "m">>,
       <<"l", "i", "n", "k", "e", "d", "i", "n", ".", "c", "o", "m">>,
       <<"g", "i", "t", "h", "u", "b", ".", "c", "o", "m">>,
       <<"a", "m", "a", "z", "o", "n", ".", "c", "o", "m">> >>

\* failure indicators scanned by validation
error_keywords ==
    << <<"e", "r", "r", "o">>,
       <<"e", "r", "r", "o", "r">>,
       <<"e", "x", "c", "e", "p", "t", "i", "o", "n">>,
       <<"n", "o", "t", " ", "f", "o", "u", "n", "d">>,
       <<"t", "i", "m", "e", "o", "u", "t">>,
       <<"b", "l", "o", "q", "u", "e", "a", "d", "a">> >>

\* names of ALL_TOOLS, the keys of TOOL_MAP
TOOL_MAP ==
    { <<"s", "e", "a", "r", "c", "h", "_", "w", "e", "b">>,
      <<"o", "p", "e", "n", "_", "u", "r", "l">>,
      <<"c", "l", "i", "c", "k", "_", "e", "l", "e", "m", "e", "n", "t">>,
      <<"t", "y", "p", "e", "_", "t", "e", "x", "t">>,
      <<"e", "x", "t", "r", "a", "c", "t", "_", "p", "a", "g", "e", "_", "e", "l", "e", "m", "e", "n", "t", "s">>,
      <<"g", "e", "t", "_", "c", "u", "r", "r", "e", "n", "t", "_", "u", "r", "l">>,
      <<"s", "c", "r", "o", "l", "l", "_", "p", "a", "g", "e">> }

\* 'Tarefa executada com '
S_final_pre ==
    <<"T", "a", "r", "e", "f", "a", " ", "e", "x", "e", "c", "u", "t", "a", "d", "a", " ", "c", "o", "m", " ">>

\* ' passos. Último resultado: '
S_final_mid ==
    <<" ", "p", "a", "s", "s", "o", "s", ".", " ", "Ú", "l", "t", "i", "m", "o", " ", "r", "e", "s", "u", "l", "t", "a", "d", "o", ":", " ">>

\* 'Nenhum JSON válido encontrado na resposta: '
S_no_json_pre ==
    <<"N", "e", "n", "h", "u", "m", " ", "J", "S", "O", "N", " ", "v", "á", "l", "i", "d", "o", " ", "e", "n", "c", "o", "n", "t", "r", "a", "d", "o", " ", "n", "a", " ", "r", "e", "s", "p", "o", "s", "t", "a", ":", " ">>

\* 'false'
S_false ==
    <<"f", "a", "l", "s", "e">>

\* ------------------------------------------------------------ Python values
\* A value is [t |-> type name, v |-> payload]; the payload of a dict is the
\* sequence of its items [key, val] in insertion order, keys distinct.
PyStr(s) == [t |-> "str", v |-> s]
PyInt(n) == [t |-> "int", v |-> n]
PyBool(b) == [t |-> "bool", v |-> b]
PyNone == [t |-> "NoneType", v |-> 0]
PyList(a) == [t |-> "list", v |-> a]
PyDict(items) == [t |-> "dict", v |-> items]
Item(k, x) == [key |-> k, val |-> x]

\* d.get(key, default) for a dict d
dict_get(d, key, default) ==
    LET hits == {i \in 1..Len(d.v) : d.v[i].key = key}
    IN  IF hits = {} THEN default ELSE d.v[CHOOSE i \in hits : TRUE].val

\* the items of a dict after d[key] = x
dict_set(items, key, x) ==
    IF \E i \in 1..Len(items) : items[i].key = key
    THEN [i \in 1..Len(items) |->
             IF items[i].key = key THEN Item(key, x) ELSE items[i]]
    ELSE Append(items, Item(key, x))

\* bool(x): the truth value Python gives x in "if not x"
py_truthy(x) ==
    CASE x.t = "bool" -> x.v
      [] x.t = "NoneType" -> FALSE
      [] x.t = "int" -> x.v # 0
      [] OTHER -> Len(x.v) > 0

RECURSIVE py_repr(_), py_join(_, _)
\* repr(x); a str is shown in single quotes
py_repr(x) ==
    CASE x.t = "str" -> <<"'">> \o x.v \o <<"'">>
      [] x.t = "int" -> int_str(x.v)
      [] x.t = "bool" -> IF x.v THEN <<"T", "r", "u", "e">> ELSE <<"F", "a", "l", "s", "e">>
      [] x.t = "NoneType" -> <<"N", "o", "n", "e">>
      [] x.t = "list" -> <<"[">> \o py_join(x.v, FALSE) \o <<"]">>
      [] OTHER -> <<"{">> \o py_join(x.v, TRUE) \o <<"}">>
\* ", ".join of the reprs of the elements (key: value for dict items)
py_join(xs, items) ==
    IF xs = <<>> THEN <<>>
    ELSE (IF items
          THEN <<"'">> \o xs[1].key \o <<"'", ":", " ">> \o py_repr(xs[1].val)
          ELSE py_repr(xs[1]))
         \o (IF Len(xs) = 1 THEN <<>> ELSE <<",", " ">> \o py_join(Tail(xs), items))

\* str(x), also what an f-string shows for x
py_str(x) == IF x.t = "str" THEN x.v ELSE py_repr(x)

\* ------------------------------------------------- text of a model response
\* A token is [k |-> kind, s |-> characters]; the kind of a punctuation token
\* is its text ("fence" for three backticks), "string" is a JSON string literal (s its content), "number"
\* a run of digits, "word" any other run of prose.
Tok(k) == [k |-> k, s |-> <<>>]
TokS(k, s) == [k |-> k, s |-> s]
FENCE == Tok("fence")
LBRACKET == Tok("[")
RBRACKET == Tok("]")
LBRACE == Tok("{")
RBRACE == Tok("}")
COMMA == Tok(",")
COLON == Tok(":")
StrTok(s) == TokS("string", s)
NumTok(n) == TokS("number", int_str(n))
WordTok(s) == TokS("word", s)

ParseFail == [ok |-> FALSE, val |-> PyNone, next |-> 0]
ParseOk(x, n) == [ok |-> TRUE, val |-> x, next |-> n]

RECURSIVE parse_value(_, _), parse_elements(_, _, _), parse_members(_, _, _)
\* the JSON value that starts at token i, and the position after it
parse_value(toks, i) ==
    IF i > Len(toks) THEN ParseFail
    ELSE CASE toks[i].k = "string" -> ParseOk(PyStr(toks[i].s), i + 1)
           [] toks[i].k = "number" -> ParseOk(PyInt(digits_int(toks[i].s)), i + 1)
           [] toks[i].k = "true" -> ParseOk(PyBool(TRUE), i + 1)
           [] toks[i].k = "false" -> ParseOk(PyBool(FALSE), i + 1)
           [] toks[i].k = "null" -> ParseOk(PyNone, i + 1)
           [] toks[i].k = "[" ->
                IF i + 1 <= Len(toks) /\ toks[i + 1].k = "]"
                THEN ParseOk(PyList(<<>>), i + 2)
                ELSE parse_elements(toks, i + 1, <<>>)
           [] toks[i].k = "{" ->
                IF i + 1 <= Len(toks) /\ toks[i + 1].k = "}"
                THEN ParseOk(PyDict(<<>>), i + 2)
                ELSE parse_members(toks, i + 1, <<>>)
           [] OTHER -> ParseFail
\* the rest of an array after "[" or ",": value, then "," or "]"
parse_elements(toks, i, acc) ==
    LET r == parse_value(toks, i)
    IN  IF ~r.ok \/ r.next > Len(toks) THEN ParseFail
        ELSE IF toks[r.next].k = ","
             THEN parse_elements(toks, r.next + 1, Append(acc, r.val))
        ELSE IF toks[r.next].k = "]"
             THEN ParseOk(PyList(Append(acc, r.val)), r.next + 1)
        ELSE ParseFail
\* the rest of an object after "{" or ",": string ":" value, then "," or "}"
parse_members(toks, i, acc) ==
    IF i + 1 > Len(toks) \/ toks[i].k # "string" \/ toks[i + 1].k # ":"
    THEN ParseFail
    ELSE LET r == parse_value(toks, i + 2)
         IN  IF ~r.ok \/ r.next > Len(toks) THEN ParseFail
             ELSE IF toks[r.next].k = ","
                  THEN parse_members(toks, r.next + 1,
                                     dict_set(acc, toks[i].s, r.val))
             ELSE IF toks[r.next].k = "}"
                  THEN ParseOk(PyDict(dict_set(acc, toks[i].s, r.val)),
                               r.next + 1)
             ELSE ParseFail

\* json.loads(text): ok is FALSE where it raises
json_loads(toks) ==
    LET r == parse_value(toks, 1)
    IN  IF r.ok /\ r.next = Len(toks) + 1
        THEN [ok |-> TRUE, val |-> r.val]
        ELSE [ok |-> FALSE, val |-> PyNone]

\* positions of the tokens of kind k
positions(toks, k) == {i \in 1..Len(toks) : toks[i].k = k}
set_min(S) == CHOOSE i \in S : \A j \in S : i <= j
set_max(S) == CHOOSE i \in S : \A j \in S : j <= i

\* group(1) of re.search(r"```(?:json)?\s*([\s\S]*?)```", text): from the
\* first fence (and a "json" tag right after it) up to the next fence
fence_match(toks) ==
    LET f == positions(toks, "fence")
    IN  IF Cardinality(f) < 2 THEN [found |-> FALSE, text |-> <<>>]
        ELSE LET a == set_min(f)
                 b == set_min(f \ {a})
                 start == IF a + 1 < b /\ toks[a + 1] = WordTok(S_json)
                          THEN a + 2 ELSE a + 1
             IN  [found |-> TRUE, text |-> SubSeq(toks, start, b - 1)]

\* group(0) of re.search of open [\s\S]* close: from the first opening token
\* to the last closing token after it
greedy_match(toks, open, close) ==
    LET o == positions(toks, open)
        c == positions(toks, close)
    IN  IF o = {} \/ c = {} \/ set_max(c) < set_min(o)
        THEN [found |-> FALSE, text |-> <<>>]
        ELSE [found |-> TRUE, text |-> SubSeq(toks, set_min(o), set_max(c))]

\* the character U+0060; a TLA+ string cannot hold it, so it has a name
BACKTICK == "grave"

\* the characters of a token
tok_chars(t) ==
    CASE t.k = "fence" -> <<BACKTICK, BACKTICK, BACKTICK>>
      [] t.k = "string" -> <<"\"">> \o t.s \o <<"\"">>
      [] t.k \in {"number", "word"} -> t.s
      [] t.k = "true" -> <<"t", "r", "u", "e">>
      [] t.k = "false" -> S_false
      [] t.k = "null" -> <<"n", "u", "l", "l">>
      [] OTHER -> <<t.k>>

RECURSIVE text_chars(_)
\* the characters of a text, written without optional whitespace
text_chars(toks) ==
    IF toks = <<>> THEN <<>> ELSE tok_chars(toks[1]) \o text_chars(Tail(toks))

\* the value extract_json returns
Returned(x) == [ok |-> TRUE, val |-> x, err |-> <<>>]
\* the ValueError extract_json raises: its message with text[:300]
NoJsonError(text) ==
    [ok |-> FALSE, val |-> PyNone,
     err |-> S_no_json_pre \o str_prefix(text_chars(text), 300)]

\* extract_json that tries the object match before the array match
extract_json_object_first(text) ==
    LET m1 == fence_match(text)
        m2 == greedy_match(text, "[", "]")
        m3 == greedy_match(text, "{", "}")
    IN  IF m1.found /\ json_loads(m1.text).ok THEN Returned(json_loads(m1.text).val)
        ELSE IF m3.found /\ json_loads(m3.text).ok THEN Returned(json_loads(m3.text).val)
        ELSE IF m2.found /\ json_loads(m2.text).ok THEN Returned(json_loads(m2.text).val)
        ELSE NoJsonError(text)

\* extract_json(text): ok is FALSE where it raises ValueError
extract_json(text) ==
    LET m1 == fence_match(text)
        m2 == greedy_match(text, "[", "]")
        m3 == greedy_match(text, "{", "}")
    IN  IF m1.found /\ json_loads(m1.text).ok THEN Returned(json_loads(m1.text).val)
        ELSE IF m2.found /\ json_loads(m2.text).ok THEN Returned(json_loads(m2.text).val)
        ELSE IF m3.found /\ json_loads(m3.text).ok THEN Returned(json_loads(m3.text).val)
        ELSE NoJsonError(text)

\* ------------------------------------------------------------ semantic guard
\* semantic_url_check(intent, url) for two str arguments
semantic_url_check(intent, url) ==
    LET intent_lower == str_lower(intent)
        url_lower == str_lower(url)
    IN  IF str_in(S_youtube, intent_lower) /\ ~str_in(S_youtube_com, url_lower)
        THEN FALSE
        ELSE \A d \in 1..Len(known_domains) :
                 LET domain == known_domains[d]
                     name == str_split_first(domain, ".")
                 IN  ~(str_in(name, intent_lower) /\ ~str_in(domain, url_lower))

\* ------------------------------------- texts of the user, the model, the tools
\* ''
S_empty ==
    <<>>

\* 'Open YouTube'
S_Open_YouTube ==
    <<"O", "p", "e", "n", " ", "Y", "o", "u", "T", "u", "b", "e">>

\* 'search recipes'
S_search_recipes ==
    <<"s", "e", "a", "r", "c", "h", " ", "r", "e", "c", "i", "p", "e", "s">>

\* 'open youtube'
S_open_youtube ==
    <<"o", "p", "e", "n", " ", "y", "o", "u", "t", "u", "b", "e">>

\* 'open google'
S_open_google ==
    <<"o", "p", "e", "n", " ", "g", "o", "o", "g", "l", "e">>

\* 'ver o GitHub e o Google'
S_ver_github ==
    <<"v", "e", "r", " ", "o", " ", "G", "i", "t", "H", "u", "b", " ", "e", " ", "o", " ", "G", "o", "o", "g", "l", "e">>

\* 'comprar na Amazon'
S_amazon_prime ==
    <<"c", "o", "m", "p", "r", "a", "r", " ", "n", "a", " ", "A", "m", "a", "z", "o", "n">>

\* 'que horas sao'
S_plain_text ==
    <<"q", "u", "e", " ", "h", "o", "r", "a", "s", " ", "s", "a", "o">>

\* 'https://vimeo.com/x'
S_url_vimeo ==
    <<"h", "t", "t", "p", "s", ":", "/", "/", "v", "i", "m", "e", "o", ".", "c", "o", "m", "/", "x">>

\* 'https://youtube.com/watch?v=1'
S_url_youtube ==
    <<"h", "t", "t", "p", "s", ":", "/", "/", "y", "o", "u", "t", "u", "b", "e", ".", "c", "o", "m", "/", "w", "a", "t", "c", "h", "?", "v", "=", "1">>

\* 'https://anything.example'
S_url_anything ==
    <<"h", "t", "t", "p", "s", ":", "/", "/", "a", "n", "y", "t", "h", "i", "n", "g", ".", "e", "x", "a", "m", "p", "l", "e">>

\* 'https://notgoogle.com'
S_url_notgoogle ==
    <<"h", "t", "t", "p", "s", ":", "/", "/", "n", "o", "t", "g", "o", "o", "g", "l", "e", ".", "c", "o", "m">>

\* 'https://www.google.com'
S_url_google ==
    <<"h", "t", "t", "p", "s", ":", "/", "/", "w", "w", "w", ".", "g", "o", "o", "g", "l", "e", ".", "c", "o", "m">>

\* 'HTTPS://WWW.YOUTUBE.COM'
S_url_YOUTUBE ==
    <<"H", "T", "T", "P", "S", ":", "/", "/", "W", "W", "W", ".", "Y", "O", "U", "T", "U", "B", "E", ".", "C", "O", "M">>

\* 'https://youtube-mirror.net'
S_url_mirror ==
    <<"h", "t", "t", "p", "s", ":", "/", "/", "y", "o", "u", "t", "u", "b", "e", "-", "m", "i", "r", "r", "o", "r", ".", "n", "e", "t">>

\* 'https://github.com/google'
S_url_github ==
    <<"h", "t", "t", "p", "s", ":", "/", "/", "g", "i", "t", "h", "u", "b", ".", "c", "o", "m", "/", "g", "o", "o", "g", "l", "e">>

\* 'teleport'
S_teleport ==
    <<"t", "e", "l", "e", "p", "o", "r", "t">>

\* 'main_action'
S_main_action ==
    <<"m", "a", "i", "n", "_", "a", "c", "t", "i", "o", "n">>

\* 'navegar'
S_navegar ==
    <<"n", "a", "v", "e", "g", "a", "r">>

\* 'ok'
S_ok ==
    <<"o", "k">>

\* 'Desculpe'
S_Desculpe ==
    <<"D", "e", "s", "c", "u", "l", "p", "e">>

\* '1 validation error for tool input'
S_tool_exc ==
    <<"1", " ", "v", "a", "l", "i", "d", "a", "t", "i", "o", "n", " ", "e", "r", "r", "o", "r", " ", "f", "o", "r", " ", "t", "o", "o", "l", " ", "i", "n", "p", "u", "t">>

\* 'Resumo: tarefa realizada.'
S_summary ==
    <<"R", "e", "s", "u", "m", "o", ":", " ", "t", "a", "r", "e", "f", "a", " ", "r", "e", "a", "l", "i", "z", "a", "d", "a", ".">>

\* 'BLOQUEADA'
S_BLOQUEADA ==
    <<"B", "L", "O", "Q", "U", "E", "A", "D", "A">>

\* type(x).__name__
py_type_name(x) ==
    CASE x.t = "str" -> <<"s", "t", "r">>
      [] x.t = "int" -> <<"i", "n", "t">>
      [] x.t = "bool" -> <<"b", "o", "o", "l">>
      [] x.t = "NoneType" -> <<"N", "o", "n", "e", "T", "y", "p", "e">>
      [] x.t = "list" -> <<"l", "i", "s", "t">>
      [] OTHER -> <<"d", "i", "c", "t">>

\* str(e) of the AttributeError raised by x.lower() when x is not a str
attribute_error(x) == <<"'">> \o py_type_name(x) \o <<"'", " ", "o", "b", "j", "e", "c", "t", " ", "h", "a", "s", " ", "n", "o", " ", "a", "t", "t", "r", "i", "b", "u", "t", "e", " ", "'", "l", "o", "w", "e", "r", "'">>

\* ------------------------------------------------------------------ inputs
\* message.content.strip() of a chat message that is not empty
UserInputs == {S_Open_YouTube, S_search_recipes}

\* the JSON text of an object with the given members <<key, value tokens>>
ObjText(members) ==
    LET RECURSIVE body(_)
        body(i) ==
            IF i > Len(members) THEN <<>>
            ELSE (IF i = 1 THEN <<>> ELSE <<COMMA>>)
                 \o <<StrTok(members[i][1]), COLON>> \o members[i][2] \o body(i + 1)
    IN  <<LBRACE>> \o body(1) \o <<RBRACE>>

\* the JSON text of an array of the given element texts
ArrText(elements) ==
    LET RECURSIVE body(_)
        body(i) ==
            IF i > Len(elements) THEN <<>>
            ELSE (IF i = 1 THEN <<>> ELSE <<COMMA>>) \o elements[i] \o body(i + 1)
    IN  <<LBRACKET>> \o body(1) \o <<RBRACKET>>

\* response.content of the intent prompt
IntentResponses ==
    { \* the documented shape
      ObjText(<< <<S_intent_summary, <<StrTok(S_open_youtube)>> >>,
                 <<S_main_action, <<StrTok(S_navegar)>> >> >>),
      \* an object without intent_summary
      ObjText(<< <<S_main_action, <<StrTok(S_navegar)>> >> >>),
      \* intent_summary: null
      ObjText(<< <<S_intent_summary, <<Tok("null")>> >> >>),
      \* an array
      ArrText(<< <<StrTok(S_open_youtube)>> >>),
      \* prose without JSON
      <<WordTok(S_Desculpe)>> }

\* the texts of the plan steps the planning model writes
StepPool ==
    << ObjText(<< <<S_step, <<NumTok(1)>> >>,
                  <<S_action, <<StrTok(S_search_web)>> >>,
                  <<S_input, <<StrTok(S_youtube)>> >>,
                  <<S_description, <<StrTok(<<"b", "u", "s", "c", "a", "r">>)>> >> >>),
       ObjText(<< <<S_action, <<StrTok(S_open_url)>> >>,
                  <<S_input, <<StrTok(S_url_vimeo)>> >> >>),
       ObjText(<< <<S_action, <<StrTok(S_teleport)>> >>,
                  <<S_input, <<StrTok(S_ok)>> >> >>),
       ObjText(<< <<S_action, <<StrTok(S_open_url)>> >>,
                  <<S_input, <<StrTok(S_url_youtube)>> >>,
                  <<S_description, <<StrTok(<<"a", "b", "r", "i", "r">>)>> >> >>),
       ObjText(<< <<S_action, <<StrTok(S_open_url)>> >>,
                  <<S_input, ObjText(<< <<<<"u", "r", "l">>, <<StrTok(S_url_vimeo)>> >> >>)>> >>),
       <<StrTok(S_open_url)>>,
       ObjText(<< <<S_input, <<NumTok(5)>> >> >>),
       ObjText(<< <<S_action, <<StrTok(<<"s", "c", "r", "o", "l", "l", "_", "p", "a", "g", "e">>)>> >>,
                  <<S_input, <<NumTok(500)>> >> >>),
       ObjText(<< <<S_action, ArrText(<< <<StrTok(S_open_url)>> >>)>>,
                  <<S_input, <<StrTok(S_url_youtube)>> >> >>) >>

\* a plan of n steps taken from the pool in rotation, starting at step k
PlanText(k, n) ==
    ArrText([i \in 1..n |-> StepPool[((k + i - 2) % Len(StepPool)) + 1]])

\* response.content of the planning prompt
PlanResponses ==
    {PlanText(k, n) : k \in 1..Len(StepPool), n \in 1..MaxPlanLen}
    \cup { \* an empty array
           ArrText(<<>>),
           \* one step object, not in an array
           StepPool[1],
           \* a fenced scalar
           <<FENCE, WordTok(S_json), NumTok(5), FENCE>>,
           \* prose, then a fenced plan
           <<WordTok(S_Desculpe), FENCE>> \o PlanText(4, 1) \o <<FENCE>>,
           \* prose without JSON
           <<WordTok(S_Desculpe)>> }

\* response.content of the validation prompt
ValidationResponses ==
    { ObjText(<< <<S_success, <<Tok("true")>> >>,
                 <<S_can_continue, <<Tok("true")>> >>,
                 <<S_notes, <<StrTok(S_ok)>> >>,
                 <<S_extracted_info, <<StrTok(S_empty)>> >> >>),
      ObjText(<< <<S_success, <<Tok("false")>> >>,
                 <<S_can_continue, <<Tok("false")>> >>,
                 <<S_notes, <<StrTok(S_empty)>> >>,
                 <<S_extracted_info, <<StrTok(S_empty)>> >> >>),
      \* no can_continue
      ObjText(<< <<S_success, <<Tok("true")>> >> >>),
      \* can_continue: null
      ObjText(<< <<S_can_continue, <<Tok("null")>> >> >>),
      \* can_continue: "false", a string
      ObjText(<< <<S_can_continue, <<StrTok(S_false)>> >> >>),
      \* an array
      ArrText(<< ObjText(<< <<S_can_continue, <<Tok("true")>> >> >>) >>),
      \* a fenced scalar
      <<FENCE, WordTok(S_json), Tok("true"), FENCE>>,
      \* prose without JSON
      <<WordTok(S_Desculpe)>> }

\* response.content of the completion prompt (not parsed: a str)
CompletionResponses == {S_summary, S_empty}

\* what tool_fn.invoke does: it returns a str or raises
ToolOutcomes ==
    { \* a success message and the text of the page, more than 200 characters
      [raises |-> FALSE, text |-> <<"P", "á", "g", "i", "n", "a", " ", "c", "a", "r", "r", "e", "g", "a", "d", "a", " ", "c", "o", "m", " ", "s", "u", "c", "e", "s", "s", "o", ".">>
                                  \o str_repeat(S_plain_text, 14)],
      [raises |-> FALSE, text |-> <<"E", "r", "r", "o", " ", "a", "o", " ", "a", "b", "r", "i", "r", " ", "U", "R", "L", ":", " ", "T", "i", "m", "e", "o", "u", "t", " ", "3", "0", "0", "0", "0", "m", "s", " ", "e", "x", "c", "e", "e", "d", "e", "d", ".">>],
      [raises |-> TRUE, text |-> S_tool_exc] }

\* -------------------------------------------------------------------- state
VARIABLES
    pc,               \* the node the graph runs next; "END", or "aborted"
    user_input,       \* AgentState fields
    intent,
    plan,
    current_step,
    last_result,
    results_history,
    final_answer,
    step_log,         \* the "node" of each log entry
    validation_data,  \* state["_validation"]
    fault,            \* the function whose exception ended the run, or "none"
    llm_status,       \* how the last llm.invoke + extract_json went
    invoked,          \* the calls made to tool_fn.invoke, in order
    fallback_only,    \* no validation so far took its verdict from the model
    g_pc,             \* a call of semantic_url_check on its own:
    g_intent,         \*   its arguments
    g_url,
    g_result,         \*   and what it returned
    x_pc,             \* a call of extract_json on its own:
    x_text,           \*   the text it is given
    x_result,         \*   what it returned or raised
    x_again,          \*   and extract_json of the serialized result
    c_runs            \* the on_message handlers started, in arrival order

vars ==
    <<pc, user_input, intent, plan, current_step, last_result, results_history,
      final_answer, step_log, validation_data, fault, llm_status, invoked,
      fallback_only, g_pc, g_intent, g_url, g_result, x_pc, x_text, x_result, x_again,
      c_runs>>

run_vars ==
    <<pc, user_input, intent, plan, current_step, last_result, results_history,
      final_answer, step_log, validation_data, fault, llm_status, invoked,
      fallback_only>>

guard_vars == <<g_pc, g_intent, g_url, g_result>>

extract_vars == <<x_pc, x_text, x_result, x_again>>

\* everything but the fields of the run
side_vars == <<guard_vars, extract_vars, c_runs>>

\* initial_state with the final answer already filled in
initial_state_with_answer(u) ==
    /\ pc = "intent_analysis"
    /\ user_input = u
    /\ intent = PyStr(S_empty)
    /\ plan = <<>>
    /\ current_step = 0
    /\ last_result = S_empty
    /\ results_history = <<>>
    /\ final_answer = S_summary
    /\ step_log = <<>>
    /\ validation_data = PyDict(<<>>)
    /\ fault = "none"
    /\ llm_status = "none"
    /\ invoked = <<>>
    /\ fallback_only = TRUE

\* initial_state of on_message for the message text u
initial_state(u) ==
    /\ pc = "intent_analysis"
    /\ user_input = u
    /\ intent = PyStr(S_empty)
    /\ plan = <<>>
    /\ current_step = 0
    /\ last_result = S_empty
    /\ results_history = <<>>
    /\ final_answer = S_empty
    /\ step_log = <<>>
    /\ validation_data = PyDict(<<>>)
    /\ fault = "none"
    /\ llm_status = "none"
    /\ invoked = <<>>
    /\ fallback_only = TRUE

GuardIdle ==
    /\ g_pc = "idle"
    /\ g_intent = S_empty
    /\ g_url = S_empty
    /\ g_result = TRUE

ExtractIdle ==
    /\ x_pc = "idle"
    /\ x_text = <<>>
    /\ x_result = NoJsonError(<<>>)
    /\ x_again = NoJsonError(<<>>)

Init ==
    /\ \E u \in UserInputs : initial_state(u)
    /\ GuardIdle
    /\ ExtractIdle
    /\ c_runs = <<>>

\* an exception leaves the node: agent_graph.invoke raises, no state is returned
Abort(node) ==
    /\ pc' = "aborted"
    /\ fault' = node
    /\ UNCHANGED <<user_input, intent, plan, current_step, last_result,
                   results_history, final_answer, step_log, validation_data,
                   invoked,
                   fallback_only, side_vars>>

\* ---------------------------------------------------------- intent_analysis
\* llm.invoke raises: the call is outside the try
intent_analysis_llm_raises ==
    /\ pc = "intent_analysis"
    /\ llm_status' = "raised"
    /\ Abort("intent_analysis")

\* resolved_intent that falls back to an empty intent
resolved_intent_blank(response, user_text) ==
    LET data == extract_json(response)
    IN  IF data.ok /\ data.val.t = "dict"
        THEN dict_get(data.val, S_intent_summary, PyStr(S_empty))
        ELSE PyStr(S_empty)

\* the intent the node stores for the response text
resolved_intent(response, user_text) ==
    LET data == extract_json(response)
    IN  IF data.ok /\ data.val.t = "dict"
        THEN dict_get(data.val, S_intent_summary, PyStr(user_text))
        ELSE PyStr(user_text)

intent_analysis_returns(response) ==
    /\ pc = "intent_analysis"
    /\ intent' = resolved_intent(response, user_input)
    /\ step_log' = Append(step_log, "intent_analysis")
    /\ llm_status' = IF extract_json(response).ok THEN "parsed" ELSE "no_json"
    /\ pc' = "plan_generation"
    /\ UNCHANGED <<user_input, plan, current_step, last_result, results_history,
                   final_answer, validation_data, fault, invoked,
                   fallback_only, side_vars>>

intent_analysis ==
    \/ intent_analysis_llm_raises
    \/ \E response \in IntentResponses : intent_analysis_returns(response)

\* ---------------------------------------------------------- plan_generation
\* fallback_plan with the fallback step left out
fallback_plan_empty(user_text) == <<>>

\* the minimal fallback plan
fallback_plan(user_text) ==
    << PyDict(<< Item(S_step, PyInt(1)),
                 Item(S_action, PyStr(S_search_web)),
                 Item(S_input, PyStr(user_text)),
                 Item(S_description, PyStr(S_fallback_description)) >>) >>

\* the plan the node stores for the response text
parsed_plan(response, user_text) ==
    LET data == extract_json(response)
    IN  IF data.ok
        THEN IF data.val.t = "list" THEN data.val.v ELSE <<data.val>>
        ELSE fallback_plan(user_text)

plan_generation_llm_raises ==
    /\ pc = "plan_generation"
    /\ llm_status' = "raised"
    /\ Abort("plan_generation")

plan_generation_returns(response) ==
    /\ pc = "plan_generation"
    /\ plan' = parsed_plan(response, user_input)
    /\ current_step' = 0
    /\ results_history' = <<>>
    /\ step_log' = Append(step_log, "plan_generation")
    /\ llm_status' = IF extract_json(response).ok THEN "parsed" ELSE "no_json"
    /\ pc' = "tool_execution"
    /\ UNCHANGED <<user_input, intent, last_result, final_answer,
                   validation_data, fault, invoked,
                   fallback_only, side_vars>>

plan_generation ==
    \/ plan_generation_llm_raises
    \/ \E response \in PlanResponses : plan_generation_returns(response)

\* ----------------------------------------------------------- tool_execution
\* not_found_result without the action name
not_found_result_no_name(action) == S_tool_pre \o S_tool_post

not_found_result(action) == S_tool_pre \o py_str(action) \o S_tool_post

\* blocked_result without the intent
blocked_result_no_intent(inp, intent_text) ==
    S_blocked_1 \o inp \o S_blocked_2 \o S_blocked_3 \o S_blocked_4

blocked_result(inp, intent_text) ==
    S_blocked_1 \o inp \o S_blocked_2 \o S_blocked_3 \o intent_text \o S_blocked_4

\* exec_error_result without the text of the exception
exec_error_result_no_cause(action, e) ==
    S_exec_err_pre \o py_str(action) \o S_exec_err_mid

exec_error_result(action, e) ==
    S_exec_err_pre \o py_str(action) \o S_exec_err_mid \o e

history_entry(idx, action, inp, result, description) ==
    [step |-> idx + 1, action |-> action, input |-> inp, result |-> result,
     description |-> description]

\* next_step that skips a step
next_step_skips(idx) == idx + 2

\* the cursor after a step was executed
next_step(idx) == idx + 1

\* record_step that keeps only the newest entry
record_step_overwrites(action, inp, description, result, calls) ==
    /\ results_history' =
           << history_entry(current_step, action, inp, result, description) >>
    /\ last_result' = result
    /\ current_step' = next_step(current_step)
    /\ step_log' = Append(step_log, "tool_execution")
    /\ invoked' = invoked \o calls
    /\ pc' = "validation"
    /\ UNCHANGED <<user_input, intent, plan, final_answer, validation_data,
                   fault, llm_status,
                   fallback_only, side_vars>>

\* the node's return value once the step's result is known; calls is the
\* sequence of tool_fn.invoke calls the step made (none or one)
record_step(action, inp, description, result, calls) ==
    /\ results_history' =
           Append(results_history,
                  history_entry(current_step, action, inp, result, description))
    /\ last_result' = result
    /\ current_step' = next_step(current_step)
    /\ step_log' = Append(step_log, "tool_execution")
    /\ invoked' = invoked \o calls
    /\ pc' = "validation"
    /\ UNCHANGED <<user_input, intent, plan, final_answer, validation_data,
                   fault, llm_status,
                   fallback_only, side_vars>>

\* tool_fn.invoke(arg) under the try: its result or the text of its exception
invoke_tool(action, inp, description, arg) ==
    \E out \in ToolOutcomes :
        record_step(action, inp, description,
                    IF out.raises THEN exec_error_result(action, out.text)
                    ELSE out.text,
                    << [action |-> action.v, arg |-> arg,
                        raised |-> out.raises] >>)

\* tool_execution_plan_done that still advances the cursor
tool_execution_plan_done_advances ==
    /\ pc = "tool_execution"
    /\ current_step >= Len(plan)
    /\ last_result' = S_plan_done
    /\ pc' = "validation"
    /\ current_step' = current_step + 1
    /\ UNCHANGED <<user_input, intent, plan, results_history,
                   final_answer, step_log, validation_data, fault, llm_status,
                   invoked,
                   fallback_only, side_vars>>

\* the cursor is at or past the end of the plan
tool_execution_plan_done ==
    /\ pc = "tool_execution"
    /\ current_step >= Len(plan)
    /\ last_result' = S_plan_done
    /\ pc' = "validation"
    /\ UNCHANGED <<user_input, intent, plan, current_step, results_history,
                   final_answer, step_log, validation_data, fault, llm_status,
                   invoked,
                   fallback_only, side_vars>>

\* step.get or TOOL_MAP.get raises (the step is not a dict, or its action is
\* not hashable): both are outside the try
tool_execution_raises ==
    /\ pc = "tool_execution"
    /\ current_step < Len(plan)
    /\ LET step == plan[current_step + 1]
       IN  \/ step.t # "dict"
           \/ /\ step.t = "dict"
              /\ dict_get(step, S_action, PyStr(S_empty)).t \in {"list", "dict"}
    /\ UNCHANGED llm_status
    /\ Abort("tool_execution")

tool_execution_step ==
    /\ pc = "tool_execution"
    /\ current_step < Len(plan)
    /\ plan[current_step + 1].t = "dict"
    /\ LET step == plan[current_step + 1]
           action == dict_get(step, S_action, PyStr(S_empty))
           inp == dict_get(step, S_input, PyStr(S_empty))
           description == dict_get(step, S_description, action)
       IN  /\ action.t \notin {"list", "dict"}
           /\ IF ~(action.t = "str" /\ action.v \in TOOL_MAP)
              THEN record_step(action, inp, description,
                               not_found_result(action), <<>>)
              ELSE IF action.v = S_open_url /\ inp.t = "str"
              THEN IF intent.t # "str"
                   THEN record_step(action, inp, description,
                                    exec_error_result(action, attribute_error(intent)),
                                    <<>>)
                   ELSE IF ~semantic_url_check(intent.v, inp.v)
                   THEN record_step(action, inp, description,
                                    blocked_result(inp.v, intent.v), <<>>)
                   ELSE invoke_tool(action, inp, description, inp)
              ELSE IF inp.t = "dict"
              THEN invoke_tool(action, inp, description, inp)
              ELSE invoke_tool(action, inp, description, PyStr(py_str(inp)))

tool_execution ==
    \/ tool_execution_plan_done
    \/ tool_execution_raises
    \/ tool_execution_step

\* --------------------------------------------------------------- validation
\* any(kw in last.lower() for kw in [...])
has_error(last) ==
    \E k \in 1..Len(error_keywords) : str_in(error_keywords[k], str_lower(last))

\* fallback_verdict that reports success whatever the pre-check found
fallback_verdict_always_success(error_found, has_more) ==
    PyDict(<< Item(S_success, PyBool(TRUE)),
              Item(S_can_continue, PyBool(has_more)),
              Item(S_notes, PyStr(S_empty)),
              Item(S_extracted_info, PyStr(S_empty)) >>)

\* fallback_verdict that stops the run when the pre-check found an error
fallback_verdict_stops_on_error(error_found, has_more) ==
    PyDict(<< Item(S_success, PyBool(~error_found)),
              Item(S_can_continue, PyBool(has_more /\ ~error_found)),
              Item(S_notes, PyStr(S_empty)),
              Item(S_extracted_info, PyStr(S_empty)) >>)

\* the verdict of the except branch
fallback_verdict(error_found, has_more) ==
    PyDict(<< Item(S_success, PyBool(~error_found)),
              Item(S_can_continue, PyBool(has_more)),
              Item(S_notes, PyStr(S_empty)),
              Item(S_extracted_info, PyStr(S_empty)) >>)

\* store_verdict that returns a state without the plan
store_verdict_drops_plan(data, status) ==
    /\ validation_data' = data
    /\ step_log' = Append(step_log, "validation")
    /\ llm_status' = status
    /\ pc' = "should_continue"
    /\ fallback_only' = (fallback_only /\ status # "parsed")
    /\ plan' = <<>>
    /\ UNCHANGED <<user_input, intent, current_step, last_result,
                   results_history, final_answer, fault, invoked,
                   side_vars>>

\* the node's return value: data is what the try block left
store_verdict(data, status) ==
    /\ validation_data' = data
    /\ step_log' = Append(step_log, "validation")
    /\ llm_status' = status
    /\ pc' = "should_continue"
    /\ fallback_only' = (fallback_only /\ status # "parsed")
    /\ UNCHANGED <<user_input, intent, plan, current_step, last_result,
                   results_history, final_answer, fault, invoked,
                   side_vars>>

\* llm.invoke raises inside the try
validation_llm_raises ==
    /\ pc = "validation"
    /\ store_verdict(fallback_verdict(has_error(last_result),
                                      current_step < Len(plan)), "raised")

validation_returns(response) ==
    /\ pc = "validation"
    /\ LET data == extract_json(response)
       IN  store_verdict(IF data.ok THEN data.val
                         ELSE fallback_verdict(has_error(last_result),
                                               current_step < Len(plan)),
                         IF data.ok THEN "parsed" ELSE "no_json")

validation ==
    \/ validation_llm_raises
    \/ \E response \in ValidationResponses : validation_returns(response)

\* ---------------------------------------------------------- should_continue
\* should_continue with ">" for ">="
should_continue_off_by_one(current, plan_, data) ==
    IF current > Len(plan_) THEN "completion"
    ELSE IF data.t # "dict" THEN "raise"
    ELSE IF ~py_truthy(dict_get(data, S_can_continue, PyBool(TRUE)))
         THEN "completion"
    ELSE "tool_execution"

\* should_continue that sends the run back to planning
should_continue_replans(current, plan_, data) ==
    IF current >= Len(plan_) THEN "completion"
    ELSE IF data.t # "dict" THEN "raise"
    ELSE IF ~py_truthy(dict_get(data, S_can_continue, PyBool(TRUE)))
         THEN "completion"
    ELSE "plan_generation"

\* should_continue that does not read the verdict
should_continue_ignores_flag(current, plan_, data) ==
    IF current >= Len(plan_) THEN "completion" ELSE "tool_execution"

\* the router's return value; "raise" where validation_data.get raises
should_continue(current, plan_, data) ==
    IF current >= Len(plan_) THEN "completion"
    ELSE IF data.t # "dict" THEN "raise"
    ELSE IF ~py_truthy(dict_get(data, S_can_continue, PyBool(TRUE)))
         THEN "completion"
    ELSE "tool_execution"

\* the conditional edge out of validation
conditional_edge ==
    /\ pc = "should_continue"
    /\ LET route == should_continue(current_step, plan, validation_data)
       IN  IF route = "raise"
           THEN Abort("should_continue")
           ELSE /\ pc' = route
                /\ UNCHANGED <<user_input, intent, plan, current_step,
                               last_result, results_history, final_answer,
                               step_log, validation_data, fault, invoked,
                   fallback_only, side_vars>>
    /\ UNCHANGED llm_status

\* --------------------------------------------------------------- completion
\* fallback_final that echoes the whole last result
fallback_final_untruncated(history, last) ==
    S_final_pre \o int_str(Len(history)) \o S_final_mid \o last

\* the templated summary of the except branch
fallback_final(history, last) ==
    S_final_pre \o int_str(Len(history)) \o S_final_mid \o str_prefix(last, 200)

store_final(final, status) ==
    /\ final_answer' = final
    /\ step_log' = Append(step_log, "completion")
    /\ llm_status' = status
    /\ pc' = "END"
    /\ UNCHANGED <<user_input, intent, plan, current_step, last_result,
                   results_history, validation_data, fault, invoked,
                   fallback_only, side_vars>>

\* llm.invoke raises inside the try
completion_llm_raises ==
    /\ pc = "completion"
    /\ store_final(fallback_final(results_history, last_result), "raised")

completion_returns(content) ==
    /\ pc = "completion"
    /\ store_final(content, "returned")

completion ==
    \/ completion_llm_raises
    \/ \E content \in CompletionResponses : completion_returns(content)

\* -------------------------------------------------------------------- graph
Next ==
    \/ intent_analysis
    \/ plan_generation
    \/ tool_execution
    \/ validation
    \/ conditional_edge
    \/ completion

Spec == Init /\ [][Next]_vars

\* ------------------------------------------- semantic_url_check on its own
GuardIntents ==
    {S_open_youtube, S_search_recipes, S_open_google, S_Open_YouTube,
     S_ver_github, S_amazon_prime, S_plain_text, S_empty}

GuardUrls ==
    {S_url_vimeo, S_url_youtube, S_url_anything, S_url_notgoogle,
     S_url_google, S_url_YOUTUBE, S_url_mirror, S_url_github}

GuardInit ==
    /\ initial_state(S_Open_YouTube)
    /\ g_pc = "call"
    /\ g_intent \in GuardIntents
    /\ g_url \in GuardUrls
    /\ g_result = TRUE
    /\ ExtractIdle
    /\ c_runs = <<>>

GuardCall ==
    /\ g_pc = "call"
    /\ g_result' = semantic_url_check(g_intent, g_url)
    /\ g_pc' = "done"
    /\ UNCHANGED <<g_intent, g_url>>
    /\ UNCHANGED <<run_vars, extract_vars, c_runs>>

GuardNext == GuardCall

GuardSpec == GuardInit /\ [][GuardNext]_vars

\* --------------------------------------------------- extract_json on its own
RECURSIVE json_dumps(_)
\* json.dumps(x), the JSON text of a value
json_dumps(x) ==
    CASE x.t = "str" -> <<StrTok(x.v)>>
      [] x.t = "int" -> <<NumTok(x.v)>>
      [] x.t = "bool" -> <<Tok(IF x.v THEN "true" ELSE "false")>>
      [] x.t = "NoneType" -> <<Tok("null")>>
      [] x.t = "list" -> ArrText([i \in 1..Len(x.v) |-> json_dumps(x.v[i])])
      [] OTHER ->
           ObjText([i \in 1..Len(x.v) |-> <<x.v[i].key, json_dumps(x.v[i].val)>>])

\* text in three backticks, with the json tag or without
Fenced(tag, toks) ==
    <<FENCE>> \o (IF tag THEN <<WordTok(S_json)>> ELSE <<>>) \o toks \o <<FENCE>>

\* the texts extract_json is given: prose, then a fenced block, an array and
\* an object, each of them there or not, valid or not
ExtractTexts ==
    LET \* prose before the JSON: none, a few words, more than 300 characters
        ProseParts ==
            {<<>>, <<WordTok(S_plain_text)>>, <<WordTok(str_repeat(S_plain_text, 24))>>}
        \* a fenced block: none, an object, a tagged array, a cut-off object, a bare
        \* number, prose, an object that holds an array
        FenceParts ==
            {<<>>,
             Fenced(FALSE, ObjText(<< <<S_step, <<NumTok(1)>> >> >>)),
             Fenced(TRUE, ArrText(<< <<NumTok(1)>>, <<NumTok(2)>> >>)),
             Fenced(TRUE, <<LBRACE, StrTok(S_step), COLON>>),
             Fenced(FALSE, <<NumTok(5)>>),
             Fenced(FALSE, <<WordTok(S_plain_text)>>),
             Fenced(TRUE, ObjText(<< <<S_input, ArrText(<< <<NumTok(1)>> >>)>> >>))}
        \* an array outside a fence: none, numbers, a trailing comma, an object inside
        ArrayParts ==
            {<<>>,
             ArrText(<< <<NumTok(3)>>, <<Tok("null")>> >>),
             <<LBRACKET, NumTok(3), COMMA, RBRACKET>>,
             ArrText(<< ObjText(<< <<S_action, <<StrTok(S_open_url)>> >> >>) >>)}
        \* an object outside a fence: none, flags, a missing colon, an array inside
        ObjectParts ==
            {<<>>,
             ObjText(<< <<S_success, <<Tok("true")>> >> >>),
             <<LBRACE, StrTok(S_success), Tok("true"), RBRACE>>,
             ObjText(<< <<S_notes, ArrText(<< <<StrTok(S_ok)>> >>)>> >>)}
    IN  {p \o f \o a \o o : p \in ProseParts, f \in FenceParts,
                             a \in ArrayParts, o \in ObjectParts}

ExtractInit ==
    /\ initial_state(S_Open_YouTube)
    /\ GuardIdle
    /\ c_runs = <<>>
    /\ x_pc = "call"
    /\ x_text \in ExtractTexts
    /\ x_result = NoJsonError(<<>>)
    /\ x_again = NoJsonError(<<>>)

\* extract_json(x_text)
ExtractCall ==
    /\ x_pc = "call"
    /\ x_result' = extract_json(x_text)
    /\ x_pc' = "done"
    /\ UNCHANGED <<x_text, x_again>>
    /\ UNCHANGED <<run_vars, guard_vars, c_runs>>

\* extract_json(json.dumps(v)) for the value v that was returned
ExtractAgain ==
    /\ x_pc = "done"
    /\ x_result.ok
    /\ x_again' = extract_json(json_dumps(x_result.val))
    /\ x_pc' = "again"
    /\ UNCHANGED <<x_text, x_result>>
    /\ UNCHANGED <<run_vars, guard_vars, c_runs>>

ExtractNext == ExtractCall \/ ExtractAgain

ExtractSpec == ExtractInit /\ [][ExtractNext]_vars

\* ------------------------------------------------ runs of several messages
\* A handler is [st, left]: st is "ignored" (empty message), "running" (its
\* run_graph is in an executor thread, between tool calls), "in_tool" (the
\* thread is inside tool_fn.invoke on the page get_page() returned) or "done";
\* left is the number of tool calls the run still makes.
Handler(st, left) == [st |-> st, left |-> left]

\* the runs that are inside a tool call on the shared page
in_flight == {m \in 1..Len(c_runs) : c_runs[m].st = "in_tool"}

ConcInit ==
    /\ initial_state(S_Open_YouTube)
    /\ GuardIdle
    /\ ExtractIdle
    /\ c_runs = <<>>

\* on_message up to the await: an empty message returns, any other is handed
\* to the executor with loop.run_in_executor(None, run_graph)
on_message ==
    /\ Len(c_runs) < MaxMessages
    /\ \E empty \in BOOLEAN, calls \in 0..MaxPlanLen :
           c_runs' = Append(c_runs,
                            IF empty THEN Handler("ignored", 0)
                            ELSE Handler("running", calls))
    /\ UNCHANGED <<run_vars, guard_vars, extract_vars>>

\* the thread of run m calls tool_fn.invoke; the tool takes get_page()
tool_invoke(m) ==
    /\ c_runs[m].st = "running"
    /\ c_runs[m].left > 0
    /\ c_runs' = [c_runs EXCEPT ![m] = Handler("in_tool", c_runs[m].left)]
    /\ UNCHANGED <<run_vars, guard_vars, extract_vars>>

\* the tool call of run m returns
tool_returns(m) ==
    /\ c_runs[m].st = "in_tool"
    /\ c_runs' = [c_runs EXCEPT ![m] = Handler("running", c_runs[m].left - 1)]
    /\ UNCHANGED <<run_vars, guard_vars, extract_vars>>

\* run_graph of run m returns or raises, between tool calls, and on_message
\* goes on to send its messages
run_graph_returns(m) ==
    /\ c_runs[m].st = "running"
    /\ c_runs' = [c_runs EXCEPT ![m] = Handler("done", 0)]
    /\ UNCHANGED <<run_vars, guard_vars, extract_vars>>

ConcNext ==
    \/ on_message
    \/ \E m \in 1..Len(c_runs) : tool_invoke(m)
    \/ \E m \in 1..Len(c_runs) : tool_returns(m)
    \/ \E m \in 1..Len(c_runs) : run_graph_returns(m)

ConcSpec == ConcInit /\ [][ConcNext]_vars

\* ------------------------------------------------------------------- claims
\* plan_generation has returned in this run
AfterPlanGeneration ==
    \E i \in 1..Len(step_log) : step_log[i] = "plan_generation"

\* d is a dict with the key k
has_key(d, k) == d.t = "dict" /\ \E i \in 1..Len(d.v) : d.v[i].key = k

\* C1: every tool_execution that executes a step raises current_step by
\* exactly one, and in every state after plan_generation the length of
\* results_history equals current_step.
C1_CursorAndHistory ==
    /\ [](AfterPlanGeneration => Len(results_history) = current_step)
    /\ [][(pc = "tool_execution" /\ pc' = "validation"
           /\ current_step < Len(plan))
          => current_step' = current_step + 1]_vars

C1_Witness ==
    /\ pc = "validation"
    /\ current_step = 2
    /\ Len(results_history) = 2

\* C2: when current_step equals the plan length, should_continue selects
\* completion, whatever the verdict's can_continue flag is.
C2_CompletionAtEnd ==
    [][(pc = "should_continue" /\ current_step = Len(plan))
       => pc' = "completion"]_vars

C2_Witness ==
    /\ pc = "completion"
    /\ plan # <<>>
    /\ current_step = Len(plan)
    /\ has_key(validation_data, S_can_continue)
    /\ dict_get(validation_data, S_can_continue, PyNone) = PyBool(TRUE)

C4_PlanNeverEmpty == AfterPlanGeneration => Len(plan) >= 1

\* C5: when extract_json fails in plan_generation, the stored plan is exactly
\* one step whose action is search_web and whose input is the user's text,
\* current_step is 0 and results_history is empty.
C5_FallbackPlan ==
    [][(pc = "plan_generation" /\ llm_status' = "no_json")
       => (/\ Len(plan') = 1
           /\ plan'[1].t = "dict"
           /\ dict_get(plan'[1], S_action, PyNone) = PyStr(S_search_web)
           /\ dict_get(plan'[1], S_input, PyNone) = PyStr(user_input)
           /\ current_step' = 0
           /\ results_history' = <<>>)]_vars

C5_Witness ==
    /\ pc = "tool_execution"
    /\ current_step = 0
    /\ llm_status = "no_json"
    /\ Len(plan) = 1
    /\ dict_get(plan[1], S_input, PyNone) = PyStr(S_search_recipes)

\* C6: a failure of the model call in intent_analysis does not abort the run.
C6_IntentFailureDoesNotAbort ==
    (llm_status = "raised" /\ step_log = <<>>) => pc # "aborted"

\* C7: when the validator's model call or its extract_json fails, the verdict
\* is success = not has_error, can_continue = (current_step < plan length),
\* notes and extracted_info empty, and validation hands over to the router.
C7_FallbackVerdict ==
    /\ []((pc = "should_continue" /\ llm_status \in {"raised", "no_json"})
          => /\ validation_data.t = "dict"
             /\ Len(validation_data.v) = 4
             /\ dict_get(validation_data, S_success, PyNone)
                    = PyBool(~has_error(last_result))
             /\ dict_get(validation_data, S_can_continue, PyNone)
                    = PyBool(current_step < Len(plan))
             /\ dict_get(validation_data, S_notes, PyNone) = PyStr(S_empty)
             /\ dict_get(validation_data, S_extracted_info, PyNone)
                    = PyStr(S_empty))
    /\ [][pc = "validation" => pc' = "should_continue"]_vars

C7_Witness ==
    /\ pc = "should_continue"
    /\ llm_status = "raised"
    /\ has_error(last_result)
    /\ current_step < Len(plan)
    /\ dict_get(validation_data, S_success, PyNone) = PyBool(FALSE)

\* C8: the verdict validation stores is always a dict with the keys success,
\* can_continue, notes and extracted_info, so should_continue never raises.
C8_VerdictShape ==
    /\ fault # "should_continue"
    /\ pc = "should_continue"
       => \A k \in {S_success, S_can_continue, S_notes, S_extracted_info} :
              has_key(validation_data, k)

\* C9: semantic_url_check is false for ("open youtube", vimeo.com/x), true
\* for ("open youtube", youtube.com/watch?v=1), true for ("search recipes",
\* anything.example) and false for ("open google", notgoogle.com).
C9_GuardCases ==
    g_pc = "done"
    => /\ (g_intent = S_open_youtube /\ g_url = S_url_vimeo) => g_result = FALSE
       /\ (g_intent = S_open_youtube /\ g_url = S_url_youtube) => g_result = TRUE
       /\ (g_intent = S_search_recipes /\ g_url = S_url_anything) => g_result = TRUE
       /\ (g_intent = S_open_google /\ g_url = S_url_notgoogle) => g_result = FALSE

\* C10: when the step at the cursor is open_url with a str input that
\* semantic_url_check rejects, no tool is invoked, the recorded result holds
\* the blocked marker, the URL and the intent, and current_step goes up by one.
C10_BlockedNavigation ==
    [][(/\ pc = "tool_execution"
        /\ current_step < Len(plan)
        /\ plan[current_step + 1].t = "dict"
        /\ dict_get(plan[current_step + 1], S_action, PyNone) = PyStr(S_open_url)
        /\ dict_get(plan[current_step + 1], S_input, PyNone).t = "str"
        /\ intent.t = "str"
        /\ ~semantic_url_check(intent.v,
                               dict_get(plan[current_step + 1], S_input, PyNone).v))
       => (/\ invoked' = invoked
           /\ pc' = "validation"
           /\ current_step' = current_step + 1
           /\ Len(results_history') = Len(results_history) + 1
           /\ results_history'[Len(results_history')].result = last_result'
           /\ str_in(S_BLOQUEADA, last_result')
           /\ str_in(dict_get(plan[current_step + 1], S_input, PyNone).v, last_result')
           /\ str_in(intent.v, last_result'))]_vars

C10_Witness ==
    /\ pc = "validation"
    /\ current_step = 2
    /\ Len(invoked) = 1
    /\ str_in(S_BLOQUEADA, last_result)
    /\ str_in(S_url_vimeo, last_result)
    /\ str_in(S_open_youtube, last_result)

\* C11: a step whose action is not a key of TOOL_MAP does not raise: the
\* recorded result says the tool was not found and names it, no tool is
\* invoked, current_step goes up by one and validation runs next.
C11_UnknownTool ==
    [][(/\ pc = "tool_execution"
        /\ current_step < Len(plan)
        /\ plan[current_step + 1].t = "dict"
        /\ dict_get(plan[current_step + 1], S_action, PyStr(S_empty)).t = "str"
        /\ dict_get(plan[current_step + 1], S_action, PyStr(S_empty)).v \notin TOOL_MAP)
       => (/\ pc' = "validation"
           /\ current_step' = current_step + 1
           /\ invoked' = invoked
           /\ Len(results_history') = Len(results_history) + 1
           /\ results_history'[Len(results_history')].result = last_result'
           /\ str_in(S_tool_post, last_result')
           /\ str_in(dict_get(plan[current_step + 1], S_action, PyStr(S_empty)).v,
                     last_result'))]_vars

C11_Witness ==
    /\ pc = "validation"
    /\ current_step = 1
    /\ invoked = <<>>
    /\ str_in(S_teleport, last_result)
    /\ str_in(S_tool_post, last_result)

\* C12: an exception raised by tool_fn.invoke is caught: the result recorded
\* for the step is the failure text with the text of the exception,
\* current_step goes up by one and validation runs next.
C12_ToolFailureIsData ==
    [][(/\ pc = "tool_execution"
        /\ Len(invoked') = Len(invoked) + 1
        /\ invoked'[Len(invoked')].raised)
       => (/\ pc' = "validation"
           /\ fault' = "none"
           /\ current_step' = current_step + 1
           /\ Len(results_history') = Len(results_history) + 1
           /\ results_history'[Len(results_history')].result = last_result'
           /\ str_in(S_exec_err_pre, last_result')
           /\ str_in(invoked'[Len(invoked')].action, last_result')
           /\ str_in(S_tool_exc, last_result'))]_vars

C12_Witness ==
    /\ pc = "validation"
    /\ invoked # <<>>
    /\ invoked[Len(invoked)].raised
    /\ Len(results_history) = current_step
    /\ str_in(S_tool_exc, last_result)

\* the number of log entries of the node
runs_of(node) == Cardinality({i \in 1..Len(step_log) : step_log[i] = node})

\* C13: when every model call returns, the run is not ended by an exception
\* and it makes at most Len(plan) tool_execution/validation cycles (one when
\* the plan is empty) on its way to completion.
C13_RunReachesCompletion ==
    /\ pc = "aborted" => llm_status = "raised"
    /\ runs_of("validation") <= (IF plan = <<>> THEN 1 ELSE Len(plan))

\* C14: final_answer is empty before completion, only completion sets it,
\* completion runs at most once, and final_answer does not change after it.
C14_FinalAnswerSetOnce ==
    /\ [](pc # "END" => final_answer = S_empty)
    /\ [](runs_of("completion") = (IF pc = "END" THEN 1 ELSE 0))
    /\ [][(final_answer' # final_answer) => (pc = "completion" /\ pc' = "END")]_vars
    /\ [][(pc = "END") => (final_answer' = final_answer /\ pc' = "END")]_vars

C14_Witness ==
    /\ pc = "END"
    /\ final_answer = S_summary
    /\ Len(results_history) = 2

\* C15: every step of the run leaves the recorded history as a prefix of the
\* new history, also when validation stops the run early.
C15_HistoryAppendOnly ==
    [][/\ Len(results_history') >= Len(results_history)
       /\ SubSeq(results_history', 1, Len(results_history)) = results_history]_vars

C15_Witness ==
    /\ pc = "END"
    /\ Len(results_history) = 1
    /\ current_step < Len(plan)
    /\ ~py_truthy(dict_get(validation_data, S_can_continue, PyBool(TRUE)))

C20_CursorWithinPlan ==
    /\ [](current_step <= Len(plan))
    /\ [][(pc = "tool_execution" /\ current_step >= Len(plan))
          => (/\ last_result' = S_plan_done
              /\ current_step' = current_step
              /\ results_history' = results_history
              /\ pc' = "validation")]_vars

C20_Witness ==
    /\ pc = "validation"
    /\ AfterPlanGeneration
    /\ plan = <<>>
    /\ current_step = 0
    /\ last_result = S_plan_done

\* C17: at most one run is inside a tool call on the shared page at a time,
\* also when further messages arrive while earlier runs are executing.
C17_OneToolCallInFlight == Cardinality(in_flight) <= 1

\* the candidate parses
parses(m) == m.found /\ json_loads(m.text).ok

\* C18: extract_json returns the parse of the first candidate that parses, in
\* the order fenced block, greedy array match, greedy object match, falling
\* through candidates that are absent or do not parse; when none parses it
\* raises the error whose message ends with the first 300 characters of the
\* text.
C18_FirstParsingCandidate ==
    (x_pc = "done") =>
        LET m1 == fence_match(x_text)
            m2 == greedy_match(x_text, "[", "]")
            m3 == greedy_match(x_text, "{", "}")
            chars == text_chars(x_text)
        IN  /\ parses(m1)
                => x_result.ok /\ x_result.val = json_loads(m1.text).val
            /\ (~parses(m1) /\ parses(m2))
                => x_result.ok /\ x_result.val = json_loads(m2.text).val
            /\ (~parses(m1) /\ ~parses(m2) /\ parses(m3))
                => x_result.ok /\ x_result.val = json_loads(m3.text).val
            /\ (~parses(m1) /\ ~parses(m2) /\ ~parses(m3))
                => /\ ~x_result.ok
                   /\ Len(x_result.err) =
                          Len(S_no_json_pre)
                          + (IF Len(chars) > 300 THEN 300 ELSE Len(chars))
                   /\ \A i \in 1..Len(x_result.err) :
                          x_result.err[i] = (S_no_json_pre \o chars)[i]

\* the fenced block and the array match are there and do not parse, the
\* object match does
C18_Witness ==
    /\ x_pc = "done"
    /\ fence_match(x_text).found
    /\ ~parses(fence_match(x_text))
    /\ greedy_match(x_text, "[", "]").found
    /\ ~parses(greedy_match(x_text, "[", "]"))
    /\ x_result.ok
    /\ x_result.val = json_loads(greedy_match(x_text, "{", "}").text).val

\* C19: for every value v that extract_json returned, extract_json of
\* json.dumps(v) returns a value equal to v.
C19_ExtractionIdempotent ==
    (x_pc = "again") => (x_again.ok /\ x_again.val = x_result.val)

\* C21: when intent_analysis gets a response from which no JSON can be
\* extracted, or whose extracted value has no intent_summary, it stores the
\* user's text as the intent and the run goes on to plan_generation.
C21_IntentFallback ==
    [][\A response \in IntentResponses :
          (/\ intent_analysis_returns(response)
           /\ LET data == extract_json(response)
              IN  ~(/\ data.ok
                    /\ data.val.t = "dict"
                    /\ has_key(data.val, S_intent_summary)))
          => (/\ intent' = PyStr(user_input)
              /\ pc' = "plan_generation"
              /\ fault' = "none")]_vars

C21_Witness ==
    /\ pc = "plan_generation"
    /\ llm_status = "no_json"
    /\ intent = PyStr(user_input)
    /\ step_log = <<"intent_analysis">>

\* C22: when the model call of completion raises, final_answer is "Tarefa
\* executada com <history length> passos. Último resultado: " followed by the
\* first 200 characters of the last result, and the run ends at END.
C22_CompletionFallback ==
    [][(pc = "completion" /\ llm_status' = "raised")
       => (/\ pc' = "END"
           /\ fault' = "none"
           /\ final_answer' =
                  S_final_pre \o int_str(Len(results_history)) \o S_final_mid
                  \o SubSeq(last_result, 1,
                            IF Len(last_result) > 200 THEN 200
                            ELSE Len(last_result)))]_vars

\* the fallback summary of a run whose last result is longer than 200
C22_Witness ==
    /\ pc = "END"
    /\ llm_status = "raised"
    /\ Len(last_result) > 200
    /\ Len(results_history) = 2
    /\ Len(final_answer) = Len(S_final_pre) + 1 + Len(S_final_mid) + 200

\* C23: once plan_generation has stored the plan, tool_execution, validation,
\* the router and completion leave it as it is.
C23_PlanUnchanged ==
    [][(pc = "tool_execution" \/ pc = "validation" \/ pc = "should_continue"
        \/ pc = "completion" \/ pc = "END")
       => (plan' = plan)]_vars

C23_Witness ==
    /\ pc = "END"
    /\ Len(plan) = 2
    /\ Len(results_history) = 2
    /\ has_key(plan[2], S_description)

\* C24: every open_url call the run made was given a URL that
\* semantic_url_check accepts for the intent, whether the step's input was a
\* string or a record with a url field.
C24_GuardedNavigation ==
    \A i \in 1..Len(invoked) :
        (invoked[i].action = S_open_url /\ intent.t = "str")
        => LET arg == invoked[i].arg
               url == IF arg.t = "dict"
                      THEN dict_get(arg, <<"u", "r", "l">>, PyStr(S_empty))
                      ELSE arg
           IN  url.t = "str" /\ semantic_url_check(intent.v, url.v)

\* C25: tool_execution never raises, whatever plan plan_generation stored.
C25_ToolExecutionNeverRaises == fault # "tool_execution"

\* the last recorded result is one the executor wrote itself: tool not found,
\* URL blocked, or the text of a caught exception
synthesized_failure ==
    /\ results_history # <<>>
    /\ LET e == results_history[Len(results_history)]
       IN  \/ e.result = not_found_result(e.action)
           \/ str_prefix(e.result, Len(S_blocked_1)) = S_blocked_1
           \/ str_prefix(e.result, Len(S_exec_err_pre)) = S_exec_err_pre

\* C26: a result the executor wrote itself is flagged by the keyword
\* pre-check of validation, and the fallback verdict for it has success false.
C26_SynthesizedFailuresFlagged ==
    /\ (pc = "validation" /\ synthesized_failure) => has_error(last_result)
    /\ (pc = "should_continue" /\ llm_status # "parsed" /\ synthesized_failure)
       => dict_get(validation_data, S_success, PyNone) = PyBool(FALSE)

\* C27: while every validation has used the fallback verdict the router never
\* sends the run to completion before the end of the plan, and at completion
\* the history holds one entry per plan step, in plan order.
C27_FallbackNeverStopsEarly ==
    /\ [][(pc = "should_continue" /\ fallback_only /\ current_step < Len(plan))
          => (pc' = "tool_execution")]_vars
    /\ []((fallback_only /\ (pc = "completion" \/ pc = "END"))
          => /\ Len(results_history) = Len(plan)
             /\ runs_of("tool_execution") = Len(plan)
             /\ \A i \in 1..Len(plan) :
                    /\ results_history[i].step = i
                    /\ results_history[i].action
                           = dict_get(plan[i], S_action, PyStr(S_empty)))

\* a run of two steps on fallback verdicts whose first result has a failure
\* indicator
C27_Witness ==
    /\ pc = "END"
    /\ fallback_only
    /\ Len(plan) = 2
    /\ Len(results_history) = 2
    /\ has_error(results_history[1].result)

====
